---------------------------- MODULE Spec2Model ----------------------------
(***************************************************************************)
(* Stream-processing and alert pipeline of SafetyAIApp                     *)
(* (backend/app/services/video_service.py, alert_service.py,               *)
(* websocket_service.py, core/ai_engine.py, api/v1/endpoints/video.py).    *)
(*                                                                         *)
(* The program runs on one asyncio event loop.  A coroutine runs without   *)
(* interruption from one suspending await to the next; `running` names the *)
(* coroutine that currently holds the loop, so that the code between two   *)
(* awaits can be written as several small steps that nothing interleaves.  *)
(* The clock (datetime.utcnow) advances independently of the event loop.   *)
(***************************************************************************)
EXTENDS Integers, Sequences, FiniteSets, TLC

(* ------------------------------ bounds -------------------------------- *)
MaxTasks == 2        \* stream worker tasks created in one run
MaxFrames == 6       \* frames one stream worker reads successfully
MaxFailures == 10    \* cap of the count of consecutive failed reads
MaxStops == 2        \* stop_video_stream calls suspended at the same time
MaxAlerts == 2       \* documents in the alert collection
MaxJobs == 2         \* batch jobs created in one run

Cameras == {"cam1", "cam2"}
Uploads == {"u1"}
Instants == {0, 1, 30, 31, 601}   \* values datetime.utcnow() takes (seconds)

(* ------------------------- program constants -------------------------- *)
alert_cooldown == 30          \* video_service.py:93
frame_skip == 3               \* video_service.py:112
proximity_threshold == 100    \* ai_engine.py:188
unsafe_threshold == 150       \* ai_engine.py:215
blocking_threshold == 80      \* ai_engine.py:222
max_processing_time == 600    \* video_service.py:313

Null == "None"
NoTask == 0
Idle == <<"idle", 0>>
Worker(t) == <<"worker", t>>
Job(j) == <<"job", j>>

(* The callback start_video_stream is given: the endpoint /start passes     *)
(* none (video.py:253-257), test_live_monitoring.py passes frame_callback   *)
(* for its test camera.                                                     *)
Callbacks(c) == IF c = "cam1" THEN {"none", "frame_callback"} ELSE {"none"}

VARIABLES
    scope,                 \* what the environment does in this run (fixed)
    now,                   \* datetime.utcnow(), in seconds
    running,               \* the coroutine holding the event loop
    active_streams,        \* VideoService.active_streams
    processing_tasks,      \* VideoService.processing_tasks
    tasks,                 \* the asyncio tasks running _process_video_stream
    stops,                 \* stop_video_stream calls suspended at `await task`
    jobs,                  \* the asyncio tasks running process_video_file
    uploaded_videos,       \* the dict uploaded_videos of endpoints/video.py
    alerts,                \* the documents of database.alerts
    active_connections,    \* ConnectionManager.active_connections, per service
    sent_text,             \* the alert messages passed to websocket.send_text
    request,               \* the ASGI request GlobalAuthMiddleware handled last
    response,              \* what the middleware did with it
    frame_detections,      \* the detections handed to analyze_safety_violations
    violations,            \* the candidates it returned for them
    broadcasting,          \* the broadcast_to_type call on the endpoint's manager
    last_result            \* the start/stop call that returned in the last step

vars == <<scope, now, running, active_streams, processing_tasks, tasks,
          stops, jobs, uploaded_videos, alerts, active_connections,
          sent_text, request, response, frame_detections, violations,
          broadcasting, last_result>>

batch == <<jobs, uploaded_videos>>

sockets == <<active_connections, sent_text, broadcasting>>

http == <<request, response>>

analysis == <<frame_detections, violations>>

StopIds == 1..MaxStops

HasHandle(c) == c \in DOMAIN active_streams
HasTask(c) == c \in DOMAIN processing_tasks

(* Python dict operations: d[k] = v and del d[k]. *)
Put(d, k, v) == [x \in DOMAIN d \cup {k} |-> IF x = k THEN v ELSE d[x]]
Del(d, k) == [x \in DOMAIN d \ {k} |-> d[x]]

Done(t) == tasks[t].pc = "done"
Live(t) == t \in DOMAIN tasks /\ ~Done(t)

(* ----------------------- detections and analysis ---------------------- *)
Det(type, x, y) == [type |-> type, center |-> <<x, y>>]

(* The frames a capture delivers, as the detections detect_objects finds. *)
Frames ==
    [ bare_head |-> << Det("Worker", 100, 100), Det("Hard Hat", 100, 200),
                       Det("Safety Vest", 100, 100) >>,
      hard_hat  |-> << Det("Worker", 100, 100), Det("Hard Hat", 100, 199),
                       Det("Safety Vest", 100, 100) >>,
      spill     |-> << Det("Spill", 10, 10) >> ]
FrameNames == DOMAIN Frames

SqDist(p, q) == (p[1] - q[1]) * (p[1] - q[1]) + (p[2] - q[2]) * (p[2] - q[2])

(* AIEngine._has_nearby_ppe: sqrt(dx^2 + dy^2) < 100. *)
_has_nearby_ppe(worker_center, ppe_items, ppe_type) ==
    \E i \in DOMAIN ppe_items :
        /\ ppe_items[i].type = ppe_type
        /\ SqDist(worker_center, ppe_items[i].center)
              < proximity_threshold * proximity_threshold

RECURSIVE Flatten(_)
Flatten(ss) == IF ss = <<>> THEN <<>> ELSE Head(ss) \o Flatten(Tail(ss))

Candidate(vt, sev, obj) ==
    [violation_type |-> vt, severity_level |-> sev, primary_object |-> obj]

(* AIEngine._check_unsafe_proximity, on the two centers. *)
_check_unsafe_proximity(worker_center, machine_center) ==
    SqDist(worker_center, machine_center) < unsafe_threshold * unsafe_threshold

(* AIEngine._is_exit_blocked: every detection that is not a person counts,  *)
(* the exit's own detection included.                                       *)
_is_exit_blocked(exit_center, detections) ==
    \E i \in DOMAIN detections :
        /\ detections[i].type \notin {"Worker", "Visitor"}
        /\ SqDist(exit_center, detections[i].center)
              < blocking_threshold * blocking_threshold

(* AIEngine.analyze_safety_violations: per worker the hard hat, the vest    *)
(* and the machinery nearby; then spills; then blocked exits.               *)
analyze_safety_violations(detections) ==
    LET IsWorker(d) == d.type = "Worker"
        IsPpe(d) == d.type \in {"Hard Hat", "Safety Vest", "Safety Goggles",
                                "Safety Gloves"}
        IsMachinery(d) == d.type \in {"Machinery", "Forklift", "Crane",
                                      "Excavator"}
        IsSpill(d) == d.type = "Spill"
        IsBlockedExit(d) == d.type = "Emergency Exit"
                            /\ _is_exit_blocked(d.center, detections)
        workers == SelectSeq(detections, IsWorker)
        ppe_items == SelectSeq(detections, IsPpe)
        machinery == SelectSeq(detections, IsMachinery)
        spills == SelectSeq(detections, IsSpill)
        blocked == SelectSeq(detections, IsBlockedExit)
        PerWorker(w) ==
            LET Unsafe(m) == _check_unsafe_proximity(w.center, m.center)
                close == SelectSeq(machinery, Unsafe)
            IN  (IF ~_has_nearby_ppe(w.center, ppe_items, "Hard Hat")
                 THEN << Candidate("No Hard Hat", "High", "Worker") >> ELSE <<>>)
                \o
                (IF ~_has_nearby_ppe(w.center, ppe_items, "Safety Vest")
                 THEN << Candidate("No Safety Vest", "High", "Worker") >>
                 ELSE <<>>)
                \o
                [i \in DOMAIN close |->
                    Candidate("Unsafe Proximity", "Medium", "Worker")]
    IN  Flatten([i \in DOMAIN workers |-> PerWorker(workers[i])])
        \o [i \in DOMAIN spills |-> Candidate("Spill", "Medium", "Spill")]
        \o [i \in DOMAIN blocked |->
               Candidate("Blocked Exit", "Medium", "Emergency Exit")]

(* analysis_result of a frame; `none` stands for Python's None. *)
NoAnalysis == [none |-> TRUE, alert_required |-> FALSE,
               primary_violation |-> Candidate(Null, Null, Null)]

(* AIEngine.analyze_frame is called by VideoService but ai_engine.py does  *)
(* not define it.  Where an engine offers it, it is taken to run           *)
(* detect_objects and analyze_safety_violations and to report the first    *)
(* candidate as primary_violation (spec.md 4.3).                           *)
analyze_frame(frame) ==
    LET found == analyze_safety_violations(Frames[frame])
    IN  IF found = <<>>
        THEN [NoAnalysis EXCEPT !.none = FALSE]
        ELSE [none |-> FALSE, alert_required |-> TRUE,
              primary_violation |-> found[1]]

(* VideoService._analyze_frame_for_alerts: the AttributeError raised by a  *)
(* missing analyze_frame is caught and None is returned.                   *)
_analyze_frame_for_alerts(frame) ==
    IF scope.analyze_frame THEN analyze_frame(frame) ELSE NoAnalysis

(* _should_create_alert without the cooldown test of lines 229-232. *)
_should_create_alert_always(analysis_result, last_alert_time, cooldown) ==
    analysis_result.primary_violation.violation_type # Null

(* VideoService._should_create_alert *)
_should_create_alert(analysis_result, last_alert_time, cooldown) ==
    IF analysis_result.primary_violation.violation_type = Null
    THEN FALSE
    ELSE LET violation_type == analysis_result.primary_violation.violation_type
         IN  IF violation_type \in DOMAIN last_alert_time
                  /\ now - last_alert_time[violation_type] < cooldown
             THEN FALSE
             ELSE TRUE

(* An alert document; violation_type = Null marks "no document". *)
NoDoc == [alert_id |-> -1, timestamp |-> -1, violation_type |-> Null,
          severity_level |-> Null, camera_id |-> Null, snapshot_url |-> Null,
          status |-> Null, by |-> Idle]

(* VideoService._save_snapshot: None when makedirs or cv2.imwrite raises,   *)
(* the path otherwise; the value cv2.imwrite returns is not looked at.      *)
_save_snapshot(outcome) ==
    IF outcome = "raised" THEN Null ELSE "alerts/snapshot.jpg"

(* AlertService.create_alert, up to `await database.alerts.insert_one`. *)
alert_doc(who, camera_id, violation, snapshot_url) ==
    [alert_id |-> now, timestamp |-> now,
     violation_type |-> violation.violation_type,
     severity_level |-> violation.severity_level,
     camera_id |-> camera_id, snapshot_url |-> snapshot_url,
     status |-> "New", by |-> who]

(* broadcast_alert without the try/except of lines 72-93. *)
broadcast_alert_raising(outcome) ==
    IF outcome = "error" THEN "raised" ELSE "returned"

(* WebSocketService.broadcast_alert: every failure inside is caught and     *)
(* logged; the call returns normally.                                       *)
broadcast_alert(outcome) == "returned"

(* AlertService.create_alert after a successful insert: broadcast, then     *)
(* return the alert (TRUE) unless an exception reaches its handler (FALSE). *)
create_alert_returns(broadcast_outcome) ==
    broadcast_alert(broadcast_outcome) = "returned"

(* The three WebSocketService objects of the process, each with a          *)
(* ConnectionManager of its own: the module-level one of endpoints/video.py *)
(* that serves /ws/{connection_type}, the one VideoService constructs and  *)
(* the one AlertService constructs.                                        *)
WebSocketServices == {"video.websocket_service", "VideoService.websocket_service",
                      "AlertService.websocket_service"}
Channels == {"alerts", "video", "dashboard"}
Clients == {"ws1"}

NewManager == [channel \in Channels |-> {}]

(* broadcast_alert, lines 87-88: the clients whose send_text is called.    *)
(* An outcome "error" is an exception before the first send.               *)
Receivers(service, outcome) ==
    IF outcome = "error" THEN {}
    ELSE active_connections[service]["alerts"]
            \cup active_connections[service]["dashboard"]

(* The messages a broadcast of alert number i hands to the transports. *)
Messages(service, outcome, i) ==
    {[to |-> w, alert |-> i] : w \in Receivers(service, outcome)}

(* A broadcast_to_type call (lines 38-51) on the manager of the endpoint:  *)
(* where it stands, the set iterator of line 42 (the size of the set when  *)
(* the iteration began and the table slot it has reached), the socket      *)
(* whose send_text is awaited, the local set disconnected, and what became *)
(* of the clients: start holds those connected when the call began, left   *)
(* those that disconnected while it ran, sent the sockets whose send_text  *)
(* returned, in order, failed those whose send_text raised.                *)
NoBroadcast ==
    [pc |-> "none", channel |-> Null, size |-> 0, pos |-> 0, current |-> Null,
     disconnected |-> {}, start |-> {}, left |-> {}, sent |-> <<>>,
     failed |-> {}]

(* The sockets of the endpoint, in the order of their slots in the hash    *)
(* table of the set: a set iterator walks the slots upwards.               *)
TableOrder == <<"ws1", "ws2", "ws3">>
BroadcastClients == {TableOrder[i] : i \in DOMAIN TableOrder}
Slot(w) == CHOOSE i \in DOMAIN TableOrder : TableOrder[i] = w

NewTask(c, cb) ==
    [camera |-> c, callback |-> cb, pc |-> "created", must_cancel |-> FALSE,
     cap |-> "none", frame_count |-> 0, processed_frames |-> 0,
     read_failures |-> 0, last_alert_time |-> <<>>, frame |-> Null,
     pending |-> NoDoc, awaiting |-> NoTask, log |-> <<>>, exit |-> Null,
     forwarded |-> {}, errors |-> 0]

NewHandle ==
    [is_active |-> TRUE, frame_count |-> 0, alert_count |-> 0]

NoResult == [op |-> "none", camera |-> Null, result |-> Null,
             task |-> NoTask, task_done |-> FALSE, cap_released |-> FALSE,
             absent |-> FALSE]

(* cv2.imwrite writes the file, raises, or returns False without raising;   *)
(* a broadcast finds no subscriber or fails in the transport.               *)
SnapshotOutcomes == {"written", "raised", "not_written"}
BroadcastOutcomes == {"no_subscribers", "error"}
AnyIO == [snapshots |-> SnapshotOutcomes, broadcasts |-> BroadcastOutcomes]
QuietIO == [snapshots |-> {"written"}, broadcasts |-> {"no_subscribers"}]

(* ------------------------ GlobalAuthMiddleware ------------------------ *)
(* A path is the sequence of its "/" separators and segments; a route      *)
(* pattern is the literal text that re.match needs at the start of the     *)
(* path (re.match anchors at the start only, and a trailing ".*" matches   *)
(* any rest).                                                              *)
RECURSIVE Slashed(_)
Slashed(segments) ==
    IF segments = <<>> THEN <<>>
    ELSE <<"/", Head(segments)>> \o Slashed(Tail(segments))

protected_routes ==
    { Slashed(<<"api", "v1", group>>) \o <<"/">> :
        group \in {"users", "sites", "cameras", "alerts", "video", "stats"} }

public_routes ==
    { Slashed(<<"api", "v1", "auth", "login">>),
      Slashed(<<"api", "v1", "auth", "register">>),
      Slashed(<<"api", "v1", "auth", "token">>),
      <<"/">>,
      Slashed(<<"docs">>), Slashed(<<"redoc">>), Slashed(<<"openapi.json">>) }

re_match(pattern, path) ==
    /\ Len(pattern) <= Len(path)
    /\ SubSeq(path, 1, Len(pattern)) = pattern

_is_public_route(path) ==
    \E pattern \in public_routes : re_match(pattern, path)

_is_protected_route(path) ==
    \E pattern \in protected_routes : re_match(pattern, path)

(* The Authorization header: absent, of another scheme, or "Bearer " and a *)
(* token (possibly empty) with or without a good signature, sub and exp.   *)
TokenExpiries == {0, 30}
Tokens ==
    [empty : {FALSE}, signed : BOOLEAN, sub : BOOLEAN, has_exp : BOOLEAN,
     exp : TokenExpiries]
NoToken == [empty |-> TRUE, signed |-> FALSE, sub |-> FALSE,
            has_exp |-> FALSE, exp |-> 0]
Headers ==
    { [scheme |-> "none", token |-> NoToken],
      [scheme |-> "Basic", token |-> NoToken],
      [scheme |-> "Bearer", token |-> NoToken] }
    \cup { [scheme |-> "Bearer", token |-> token] : token \in Tokens }

(* jose's jwt.decode: JWTError on a bad signature and, when the token has  *)
(* an exp claim, on exp < now.                                             *)
jwt_decode(token) ==
    IF ~token.signed \/ (token.has_exp /\ token.exp < now)
    THEN "JWTError" ELSE "payload"

(* Lines 89-169: "valid" or the error_code. *)
_validate_authentication(authorization) ==
    IF authorization.scheme = "none" THEN "MISSING_AUTH_HEADER"
    ELSE IF authorization.scheme # "Bearer" THEN "INVALID_AUTH_FORMAT"
    ELSE IF authorization.token.empty THEN "EMPTY_TOKEN"
    ELSE IF jwt_decode(authorization.token) = "JWTError" THEN "INVALID_SIGNATURE"
    ELSE IF ~authorization.token.sub THEN "MISSING_SUBJECT"
    ELSE IF ~authorization.token.has_exp THEN "MISSING_EXPIRATION"
    ELSE IF now > authorization.token.exp THEN "TOKEN_EXPIRED"
    ELSE "valid"

Paths ==
    { Slashed(<<"api", "v1", "users", "me">>),
      Slashed(<<"api", "v1", "users">>),
      Slashed(<<"api", "v1", "sites">>) \o <<"/">>,
      Slashed(<<"api", "v1", "cameras", "cam1">>),
      Slashed(<<"api", "v1", "alerts">>) \o <<"/">>,
      Slashed(<<"api", "v1", "video", "status">>),
      Slashed(<<"api", "v1", "stats", "dashboard">>),
      Slashed(<<"api", "v1", "auth", "login">>),
      Slashed(<<"api", "v1", "auth", "register">>),
      Slashed(<<"api", "v1", "auth", "token">>),
      <<"/">>,
      Slashed(<<"docs">>), Slashed(<<"redoc">>), Slashed(<<"openapi.json">>),
      Slashed(<<"health">>) }

Requests == [type : {"http", "websocket"}, path : Paths, authorization : Headers]

NoRequest ==
    [type |-> Null, path |-> <<>>,
     authorization |-> [scheme |-> "none", token |-> NoToken]]
NoResponse == [to |-> Null, error_code |-> Null]

(* __call__, lines 37-68: the request goes to the application or is        *)
(* answered 401 with the error code of the validation.                     *)
GlobalAuthMiddleware(r) ==
    IF r.type # "http" THEN [to |-> "app", error_code |-> Null]
    ELSE IF _is_public_route(r.path) THEN [to |-> "app", error_code |-> Null]
    ELSE IF /\ _is_protected_route(r.path)
            /\ _validate_authentication(r.authorization) # "valid"
         THEN [to |-> "401",
               error_code |-> _validate_authentication(r.authorization)]
    ELSE [to |-> "app", error_code |-> Null]

(* What cv2 reports of an uploaded file, CAP_PROP_FPS and                  *)
(* CAP_PROP_FRAME_COUNT, and the number of frames cap.read() delivers.     *)
VideoFile == [fps |-> 5, total_frames |-> 1, frames |-> 1]

(* Files of other rates, and files whose header gives no frame count or    *)
(* one below the frames they hold.                                         *)
VideoFiles ==
    { VideoFile,
      [fps |-> 0, total_frames |-> 2, frames |-> 2],
      [fps |-> 10, total_frames |-> 4, frames |-> 4],
      [fps |-> 5, total_frames |-> 0, frames |-> 2],
      [fps |-> 5, total_frames |-> 1, frames |-> 2] }

(* A run is explored within a scope: whether the engine bound to           *)
(* self.ai_engine offers analyze_frame (the class in ai_engine.py does     *)
(* not), which cameras are used, how many worker tasks are created, which  *)
(* frames a capture delivers and how many, how far consecutive read        *)
(* failures are counted (when they are not counted, reads fail only once   *)
(* the source has run out of frames), how far the clock runs and which     *)
(* video files are uploaded.                                               *)
Scope(cameras_, tasks_, jobs_, frames_, shown_, io_, failures_, horizon_, files_) ==
    { [analyze_frame |-> a, cameras |-> cameras_, tasks |-> tasks_,
       jobs |-> jobs_, frames |-> frames_, shown |-> shown_,
       snapshots |-> io_.snapshots, broadcasts |-> io_.broadcasts,
       failures |-> failures_, horizon |-> horizon_, files |-> files_] :
      a \in BOOLEAN }

InitIn(scopes) ==
    /\ scope \in scopes
    /\ now = 0
    /\ running = Idle
    /\ active_streams = <<>>
    /\ processing_tasks = <<>>
    /\ tasks = <<>>
    /\ stops = <<>>
    /\ jobs = <<>>
    /\ uploaded_videos = <<>>
    /\ alerts = <<>>
    /\ active_connections = [service \in WebSocketServices |-> NewManager]
    /\ sent_text = {}
    /\ request = NoRequest
    /\ frame_detections = <<>>
    /\ violations = <<>>
    /\ broadcasting = NoBroadcast
    /\ response = NoResponse
    /\ last_result = NoResult

(* One camera with a stream worker and batch jobs. *)
Init == InitIn(Scope({"cam1"}, 1, MaxJobs, frame_skip, {"spill"}, QuietIO, 0, 1, {VideoFile}))

(* datetime.utcnow() moves on, whether or not a coroutine is running. *)
Tick ==
    /\ \E i \in Instants : i > now /\ i <= scope.horizon /\ now' = i
    /\ last_result' = NoResult
    /\ UNCHANGED <<scope, sockets, http, analysis, running, active_streams, processing_tasks, tasks,
                   stops, alerts, batch>>

(* start_video_stream without the test of line 31. *)
StartVideoStream_unguarded(c, cb) ==
    /\ running = Idle
    /\ Len(tasks) < scope.tasks
    /\ active_streams' = Put(active_streams, c, NewHandle)
    /\ tasks' = Append(tasks, NewTask(c, cb))
    /\ processing_tasks' = Put(processing_tasks, c, Len(tasks) + 1)
    /\ last_result' = [NoResult EXCEPT !.op = "start", !.camera = c,
                                       !.result = "started",
                                       !.task = Len(tasks) + 1]
    /\ UNCHANGED <<scope, sockets, http, analysis, now, running, stops, alerts, batch>>

(* start_video_stream: no await inside, so the call is one step. *)
StartVideoStream(c, cb) ==
    /\ running = Idle
    /\ IF HasHandle(c)
       THEN /\ last_result' = [NoResult EXCEPT !.op = "start", !.camera = c,
                                               !.result = "already_active"]
            /\ UNCHANGED <<active_streams, processing_tasks, tasks>>
       ELSE /\ Len(tasks) < scope.tasks
            /\ active_streams' = Put(active_streams, c, NewHandle)
            /\ tasks' = Append(tasks, NewTask(c, cb))
            /\ processing_tasks' = Put(processing_tasks, c, Len(tasks) + 1)
            /\ last_result' = [NoResult EXCEPT !.op = "start", !.camera = c,
                                               !.result = "started",
                                               !.task = Len(tasks) + 1]
    /\ UNCHANGED <<scope, sockets, http, analysis, now, running, stops, alerts, batch>>

(* ------------------------- stop_video_stream -------------------------- *)
(* What last_result keeps of a stop call that returns: the task it awaited  *)
(* and, at the moment of return, whether that task has finished, whether    *)
(* its capture is released and whether the camera is gone from both maps.   *)
StopResult(c, res, t, streams, ptasks) ==
    [op |-> "stop", camera |-> c, result |-> res, task |-> t,
     task_done |-> (t = NoTask \/ Done(t)),
     cap_released |-> (t = NoTask \/ tasks[t].cap # "open"),
     absent |-> (c \notin DOMAIN streams /\ c \notin DOMAIN ptasks)]

NotActive(c) ==
    [NoResult EXCEPT !.op = "stop", !.camera = c, !.result = "not_active"]

FreeStop == CHOOSE s \in StopIds : s \notin DOMAIN stops

(* stop_video_stream cancelling every registered task when the camera has  *)
(* no handle.                                                              *)
StopVideoStream_sweeping(c) ==
    /\ running = Idle
    /\ ~HasHandle(c)
    /\ tasks' = [t \in DOMAIN tasks |->
                   [tasks[t] EXCEPT !.must_cancel = @ \/ ~Done(t)]]
    /\ last_result' = NotActive(c)
    /\ UNCHANGED <<scope, sockets, http, analysis, now, running, active_streams, processing_tasks,
                   stops, alerts, batch>>

(* Lines 60-74, called from a request handler: up to `await task`, or to   *)
(* the end when there is nothing to wait for.                              *)
StopVideoStream(c) ==
    /\ running = Idle
    /\ IF ~HasHandle(c)
       THEN /\ last_result' = NotActive(c)
            /\ UNCHANGED <<active_streams, processing_tasks, tasks, stops>>
       ELSE IF ~HasTask(c)
       THEN /\ active_streams' = Del(active_streams, c)
            /\ last_result' = StopResult(c, "stopped", NoTask,
                                         active_streams', processing_tasks)
            /\ UNCHANGED <<processing_tasks, tasks, stops>>
       ELSE LET t == processing_tasks[c] IN
            IF Done(t)
            THEN /\ processing_tasks' = Del(processing_tasks, c)
                 /\ active_streams' = Del(active_streams, c)
                 /\ last_result' = StopResult(c, "stopped", t, active_streams',
                                              processing_tasks')
                 /\ UNCHANGED <<tasks, stops>>
            ELSE /\ \E s \in StopIds : s \notin DOMAIN stops
                 /\ active_streams' = [active_streams EXCEPT ![c].is_active = FALSE]
                 /\ tasks' = [tasks EXCEPT ![t].must_cancel = TRUE]
                 /\ stops' = Put(stops, FreeStop, [camera |-> c, task |-> t])
                 /\ last_result' = NoResult
                 /\ UNCHANGED processing_tasks
    /\ UNCHANGED <<scope, sockets, http, analysis, now, running, alerts, batch>>

(* Lines 75-85: what follows `await task`, shared by every caller of stop.  *)
(* A `del` of a missing key raises KeyError, which line 84 catches.         *)
AfterAwait(c, t) ==
    IF ~HasTask(c)
    THEN /\ last_result' = StopResult(c, "error", t, active_streams,
                                      processing_tasks)
         /\ UNCHANGED <<active_streams, processing_tasks>>
    ELSE /\ processing_tasks' = Del(processing_tasks, c)
         /\ IF ~HasHandle(c)
            THEN /\ last_result' = StopResult(c, "error", t, active_streams,
                                              processing_tasks')
                 /\ UNCHANGED active_streams
            ELSE /\ active_streams' = Del(active_streams, c)
                 /\ last_result' = StopResult(c, "stopped", t, active_streams',
                                              processing_tasks')

(* A suspended stop call resumes once the task it awaits has finished. *)
StopResume(s) ==
    /\ running = Idle
    /\ s \in DOMAIN stops
    /\ Done(stops[s].task)
    /\ AfterAwait(stops[s].camera, stops[s].task)
    /\ stops' = Del(stops, s)
    /\ UNCHANGED <<scope, sockets, http, analysis, now, running, tasks, alerts, batch>>

(* ----------------------- _process_video_stream ------------------------ *)
(* `finally: if cap: cap.release()` and the end of the coroutine; the     *)
(* field exit keeps how the coroutine came to its end: the source did not *)
(* open (line 107), the loop test failed (line 115) or CancelledError     *)
(* (line 180).                                                            *)
Finished(task) ==
    [task EXCEPT !.pc = "done", !.must_cancel = FALSE,
                 !.cap = IF @ = "open" THEN "released" ELSE @]

Min(a, b) == IF a < b THEN a ELSE b

(* What a worker remembers of a sampled frame that yielded a candidate. *)
LogEntry(frame, violation, admitted, snapshot) ==
    [frame |-> frame, at |-> now, violation_type |-> violation.violation_type,
     admitted |-> admitted, snapshot |-> snapshot, insert |-> Null,
     broadcast |-> Null, created |-> FALSE]


(* First step of the task: lines 90-109.  A task cancelled before it ever  *)
(* ran does not enter the coroutine.                                       *)
WorkerStart(t) ==
    /\ running = Idle
    /\ t \in DOMAIN tasks
    /\ tasks[t].pc = "created"
    /\ IF tasks[t].must_cancel
       THEN /\ tasks' = [tasks EXCEPT ![t] = Finished([@ EXCEPT !.exit = "cancelled"])]
            /\ UNCHANGED running
       ELSE \E opened \in BOOLEAN :
              IF opened
              THEN /\ tasks' = [tasks EXCEPT ![t].cap = "open", ![t].pc = "loop"]
                   /\ running' = Worker(t)
              ELSE /\ tasks' = [tasks EXCEPT ![t] = Finished(
                          [@ EXCEPT !.cap = "open", !.exit = "not_opened"])]
                   /\ UNCHANGED running
    /\ last_result' = NoResult
    /\ UNCHANGED <<scope, sockets, http, analysis, now, active_streams, processing_tasks, stops, alerts, batch>>

(* Lines 128-146 for a sampled frame: analysis, gate, snapshot, and        *)
(* create_alert up to `await database.alerts.insert_one`.  forwarded       *)
(* collects the numbers of the frames handed to the analysis.              *)
SampledFrame(t, frame, snapshot, task) ==
    LET analysis_result == _analyze_frame_for_alerts(frame)
        counted == [task EXCEPT !.processed_frames = @ + 1, !.frame = frame,
                                !.forwarded = @ \cup {task.frame_count}]
    IN  IF analysis_result.none \/ ~analysis_result.alert_required
        THEN /\ tasks' = [tasks EXCEPT ![t] = [counted EXCEPT !.pc = "post"]]
             /\ running' = Worker(t)
        ELSE LET violation == analysis_result.primary_violation
                 admitted == _should_create_alert(analysis_result,
                                 task.last_alert_time, alert_cooldown)
                 entry == LogEntry(frame, violation, admitted,
                                   IF admitted THEN snapshot ELSE Null)
                 logged == [counted EXCEPT !.log = Append(@, entry)]
             IN  IF admitted
                 THEN /\ tasks' = [tasks EXCEPT ![t] =
                            [logged EXCEPT !.pc = "insert",
                               !.pending = alert_doc(Worker(t), task.camera,
                                            violation, _save_snapshot(snapshot))]]
                      /\ running' = Idle
                 ELSE /\ tasks' = [tasks EXCEPT ![t] = [logged EXCEPT !.pc = "post"]]
                      /\ running' = Worker(t)

(* One pass from the loop test (line 115) to the next await: frames whose  *)
(* count is not a multiple of frame_skip are read and dropped without      *)
(* suspending; a failed read suspends in asyncio.sleep(0.1).               *)
WorkerLoop(t) ==
    /\ running = Worker(t)
    /\ tasks[t].pc = "loop"
    /\ LET c == tasks[t].camera
           need == frame_skip - (tasks[t].frame_count % frame_skip)
       IN  IF ~(HasHandle(c) /\ active_streams[c].is_active)
           THEN /\ tasks' = [tasks EXCEPT ![t] = Finished([@ EXCEPT !.exit = "inactive"])]
                /\ running' = Idle
           ELSE \E n \in 0..need :
                  /\ tasks[t].frame_count + n <= scope.frames
                  /\ n < need => \/ scope.failures > 0
                                 \/ tasks[t].frame_count + n = scope.frames
                  /\ IF n < need
                     THEN /\ tasks' = [tasks EXCEPT
                                ![t].frame_count = @ + n,
                                ![t].read_failures =
                                    Min(IF n = 0 THEN @ + 1 ELSE 1, scope.failures),
                                ![t].pc = "retry_sleep"]
                          /\ running' = Idle
                     ELSE \E frame \in scope.shown, snapshot \in scope.snapshots :
                            SampledFrame(t, frame, snapshot,
                                [tasks[t] EXCEPT !.frame_count = @ + n,
                                                 !.read_failures = 0])
    /\ last_result' = NoResult
    /\ UNCHANGED <<scope, sockets, http, analysis, now, active_streams, processing_tasks, stops, alerts, batch>>

SetLast(log, insert, broadcast, created) ==
    [log EXCEPT ![Len(log)] = [@ EXCEPT !.insert = insert,
                                        !.broadcast = broadcast,
                                        !.created = created]]

InsertOutcomes == {"inserted", "failed"}

(* The worker resumes from `await database.alerts.insert_one` (alert_     *)
(* service.py:46) and runs on through lines 48-56 and video_service.py     *)
(* 148-157.  A cancellation delivered at this await ends the task; the     *)
(* insert it interrupts may or may not have reached the store.             *)
WorkerInsert(t) ==
    /\ running = Idle
    /\ t \in DOMAIN tasks
    /\ tasks[t].pc = "insert"
    /\ LET c == tasks[t].camera
           doc == tasks[t].pending
           cleared == [tasks[t] EXCEPT !.pending = NoDoc]
       IN  \E insert \in InsertOutcomes, broadcast \in scope.broadcasts :
             /\ insert = "inserted" => Len(alerts) < MaxAlerts
             /\ alerts' = IF insert = "inserted" THEN Append(alerts, doc) ELSE alerts
             /\ IF tasks[t].must_cancel
                THEN /\ tasks' = [tasks EXCEPT ![t] = Finished(
                            [cleared EXCEPT !.log = SetLast(@, insert, Null, FALSE),
                                            !.exit = "cancelled"])]
                     /\ UNCHANGED <<running, active_streams, sent_text>>
                ELSE LET alert_created == insert = "inserted"
                                          /\ create_alert_returns(broadcast)
                     IN  /\ sent_text' =
                               IF insert = "inserted"
                               THEN sent_text \cup
                                    Messages("AlertService.websocket_service",
                                             broadcast, Len(alerts'))
                               ELSE sent_text
                         /\ tasks' = [tasks EXCEPT ![t] =
                               [cleared EXCEPT
                                  !.pc = "post",
                                  !.log = SetLast(@, insert,
                                      IF insert = "inserted" THEN broadcast ELSE Null,
                                      alert_created),
                                  !.last_alert_time =
                                      IF alert_created
                                      THEN Put(@, doc.violation_type, now) ELSE @]]
                         /\ active_streams' =
                               IF alert_created /\ HasHandle(c)
                               THEN [active_streams EXCEPT ![c].alert_count = @ + 1]
                               ELSE active_streams
                         /\ running' = Worker(t)
    /\ last_result' = NoResult
    /\ UNCHANGED <<scope, active_connections, broadcasting, http, analysis, now, processing_tasks, stops,
                   batch>>

(* An exception of the frame's processing that escapes to line 182 and     *)
(* ends the worker.                                                        *)
CaughtAtFrame_escaping(task) ==
    Finished([task EXCEPT !.errors = @ + 1, !.exit = "error"])

(* Lines 176-178: an exception raised while a sampled frame is processed   *)
(* is logged and the loop goes on; errors counts these exceptions.         *)
CaughtAtFrame(task) ==
    [task EXCEPT !.pc = "loop", !.errors = @ + 1]

(* Lines 159-174: statistics, the callback, then asyncio.sleep.  The       *)
(* callback of test_live_monitoring.py calls stop_video_stream for the     *)
(* worker's own camera once enough frames have been seen; that call runs   *)
(* inside the worker task, up to its `await task`.  A callback that raises *)
(* takes the worker to line 176 and back to the loop test without an await.*)
WorkerPost(t) ==
    /\ running = Worker(t)
    /\ tasks[t].pc = "post"
    /\ LET c == tasks[t].camera
           counted == IF HasHandle(c)
                      THEN [active_streams EXCEPT
                              ![c].frame_count = tasks[t].processed_frames]
                      ELSE active_streams
           t2 == IF HasTask(c) THEN processing_tasks[c] ELSE NoTask
       IN  \E calls_stop \in BOOLEAN :
             IF tasks[t].callback = "raising_callback"
             THEN /\ active_streams' = counted
                  /\ tasks' = [tasks EXCEPT ![t] = CaughtAtFrame(@)]
                  /\ last_result' = NoResult
                  /\ UNCHANGED processing_tasks
             ELSE IF tasks[t].callback = "none" \/ ~calls_stop
             THEN /\ active_streams' = counted
                  /\ tasks' = [tasks EXCEPT ![t].pc = "sleep"]
                  /\ last_result' = NoResult
                  /\ UNCHANGED processing_tasks
             ELSE IF ~HasHandle(c)
             THEN /\ tasks' = [tasks EXCEPT ![t].pc = "sleep"]
                  /\ last_result' = NotActive(c)
                  /\ UNCHANGED <<active_streams, processing_tasks>>
             ELSE IF t2 = NoTask
             THEN /\ active_streams' = Del(counted, c)
                  /\ tasks' = [tasks EXCEPT ![t].pc = "sleep"]
                  /\ last_result' = StopResult(c, "stopped", NoTask,
                                               active_streams', processing_tasks)
                  /\ UNCHANGED processing_tasks
             ELSE IF Done(t2)
             THEN /\ processing_tasks' = Del(processing_tasks, c)
                  /\ active_streams' = Del(counted, c)
                  /\ tasks' = [tasks EXCEPT ![t].pc = "sleep"]
                  /\ last_result' = StopResult(c, "stopped", t2,
                                               active_streams', processing_tasks')
             ELSE /\ active_streams' = [counted EXCEPT ![c].is_active = FALSE]
                  /\ tasks' = [tasks EXCEPT ![t2].must_cancel = TRUE,
                                            ![t].pc = "stop_await",
                                            ![t].awaiting = t2]
                  /\ last_result' = NoResult
                  /\ UNCHANGED processing_tasks
    /\ running' = IF tasks[t].callback = "raising_callback"
                  THEN Worker(t) ELSE Idle
    /\ UNCHANGED <<scope, sockets, http, analysis, now, stops, alerts, batch>>

(* The stop call made by the callback resumes from `await task`.  Awaiting *)
(* the task that is running raises at once, and the pending cancellation   *)
(* turns that into CancelledError, which line 72 catches; awaiting another *)
(* task resumes when that task has finished.  Either way a cancellation    *)
(* of the worker delivered at this await is consumed by line 72.           *)
WorkerStopReturns(t) ==
    /\ running = Idle
    /\ t \in DOMAIN tasks
    /\ tasks[t].pc = "stop_await"
    /\ tasks[t].awaiting = t \/ Done(tasks[t].awaiting)
    /\ AfterAwait(tasks[t].camera, tasks[t].awaiting)
    /\ tasks' = [tasks EXCEPT ![t].pc = "sleep", ![t].must_cancel = FALSE,
                              ![t].awaiting = NoTask]
    /\ UNCHANGED <<scope, sockets, http, analysis, now, running, stops, alerts, batch>>

(* The worker resumes from asyncio.sleep (lines 119 and 174). *)
WorkerWake(t) ==
    /\ running = Idle
    /\ t \in DOMAIN tasks
    /\ tasks[t].pc \in {"sleep", "retry_sleep"}
    /\ IF tasks[t].must_cancel
       THEN /\ tasks' = [tasks EXCEPT ![t] = Finished([@ EXCEPT !.exit = "cancelled"])]
            /\ UNCHANGED running
       ELSE /\ tasks' = [tasks EXCEPT ![t].pc = "loop"]
            /\ running' = Worker(t)
    /\ last_result' = NoResult
    /\ UNCHANGED <<scope, sockets, http, analysis, now, active_streams, processing_tasks, stops, alerts, batch>>

(* ------------------------- batch file jobs ---------------------------- *)
(* max that returns its first argument. *)
Max_first(a, b) == a

Max(a, b) == IF a > b THEN a ELSE b

(* processing_progress is kept as the fraction <<numerator, denominator>>. *)
NewUpload(c) ==
    [camera_id |-> c, status |-> "uploaded", processing_progress |-> <<0, 1>>,
     alerts_generated |-> 0]

NewJob(u, c) ==
    [upload_id |-> u, camera_id |-> c, pc |-> "created", cap |-> "none",
     start_time |-> 0, fps |-> 0, total_frames |-> 0, frames |-> 0,
     frame_count |-> 0, forwarded |-> {}, errors |-> 0,
     alerts_generated |-> 0, pending |-> NoDoc, exit |-> Null]

(* POST /upload-video: the upload id is a fresh uuid. *)
UploadVideo(u, c) ==
    /\ running = Idle
    /\ u \notin DOMAIN uploaded_videos
    /\ uploaded_videos' = Put(uploaded_videos, u, NewUpload(c))
    /\ last_result' = NoResult
    /\ UNCHANGED <<scope, sockets, http, analysis, now, running, active_streams, processing_tasks,
                   tasks, stops, jobs, alerts>>

(* POST /process-video/{upload_id}: video.py:779-806. *)
ProcessVideo(u) ==
    /\ running = Idle
    /\ u \in DOMAIN uploaded_videos
    /\ Len(jobs) < scope.jobs
    /\ uploaded_videos' = [uploaded_videos EXCEPT ![u].status = "processing"]
    /\ jobs' = Append(jobs, NewJob(u, uploaded_videos[u].camera_id))
    /\ last_result' = NoResult
    /\ UNCHANGED <<scope, sockets, http, analysis, now, running, active_streams, processing_tasks,
                   tasks, stops, alerts>>

(* process_video_file, lines 309-333: a file that does not open ends the   *)
(* job without touching the upload's status.  exit records how the job     *)
(* ended: "not_opened" (line 320), "timeout" (line 339) or "eof" (343).    *)
JobStart(j) ==
    /\ running = Idle
    /\ j \in DOMAIN jobs
    /\ jobs[j].pc = "created"
    /\ \E opened \in BOOLEAN, file \in scope.files :
         IF opened
         THEN /\ jobs' = [jobs EXCEPT ![j].cap = "open", ![j].pc = "loop",
                                      ![j].start_time = now,
                                      ![j].fps = file.fps,
                                      ![j].total_frames = file.total_frames,
                                      ![j].frames = file.frames]
              /\ running' = Job(j)
         ELSE /\ jobs' = [jobs EXCEPT ![j].cap = "released", ![j].pc = "done",
                                      ![j].exit = "not_opened"]
              /\ UNCHANGED running
    /\ last_result' = NoResult
    /\ UNCHANGED <<scope, sockets, http, analysis, now, active_streams, processing_tasks, tasks, stops,
                   uploaded_videos, alerts>>

(* Lines 417-426: ZeroDivisionError on total_frames = 0 is caught at 432. *)
Progress(job, uploads) ==
    IF job.total_frames = 0 \/ job.upload_id \notin DOMAIN uploads
    THEN uploads
    ELSE [uploads EXCEPT
            ![job.upload_id].processing_progress =
                <<job.frame_count * 100, job.total_frames>>,
            ![job.upload_id].alerts_generated = job.alerts_generated]

(* The final update without the assignment of line 460. *)
FinalStatus_without_progress(job, uploads) ==
    IF job.upload_id \notin DOMAIN uploads
    THEN uploads
    ELSE [uploads EXCEPT
            ![job.upload_id].status =
                IF now - job.start_time > max_processing_time
                THEN "timeout" ELSE "completed",
            ![job.upload_id].alerts_generated = job.alerts_generated]

(* Lines 436-464. *)
FinalStatus(job, uploads) ==
    IF job.upload_id \notin DOMAIN uploads
    THEN uploads
    ELSE [uploads EXCEPT
            ![job.upload_id].status =
                IF now - job.start_time > max_processing_time
                THEN "timeout" ELSE "completed",
            ![job.upload_id].processing_progress = <<100, 1>>,
            ![job.upload_id].alerts_generated = job.alerts_generated]

(* Lines 434-436: an exception raised while a sampled frame is processed   *)
(* (the missing analyze_frame, the division by total_frames = 0 of line    *)
(* 418) is logged and the loop goes on.                                    *)
CaughtInJob(job) == [job EXCEPT !.errors = @ + 1]

(* One iteration of the loop at line 335, up to its end or to the await    *)
(* inside create_alert.  A missing analyze_frame raises inside the try of  *)
(* line 349 and the frame is skipped.  forwarded collects the numbers of   *)
(* the frames for which line 351 is reached.                               *)
JobLoop(j) ==
    /\ running = Job(j)
    /\ jobs[j].pc = "loop"
    /\ LET job == jobs[j]
           batch_frame_skip == Max(1, job.fps \div 5)
           read == [job EXCEPT
                      !.frame_count = @ + 1,
                      !.forwarded =
                          IF (job.frame_count + 1) % batch_frame_skip = 0
                          THEN @ \cup {job.frame_count + 1} ELSE @]
       IN  \E ret \in BOOLEAN, frame \in scope.shown :
             /\ ret => job.frame_count < job.frames
             /\ IF now - job.start_time > max_processing_time \/ ~ret
                THEN /\ jobs' = [jobs EXCEPT
                            ![j].pc = "done", ![j].cap = "released",
                            ![j].exit =
                                IF now - job.start_time > max_processing_time
                                THEN "timeout" ELSE "eof"]
                     /\ uploaded_videos' = FinalStatus(job, uploaded_videos)
                     /\ running' = Idle
                ELSE IF read.frame_count % batch_frame_skip # 0
                THEN /\ jobs' = [jobs EXCEPT ![j] = read]
                     /\ UNCHANGED <<uploaded_videos, running>>
                ELSE IF ~scope.analyze_frame
                THEN /\ jobs' = [jobs EXCEPT ![j] = CaughtInJob(read)]
                     /\ UNCHANGED <<uploaded_videos, running>>
                ELSE IF ~analyze_frame(frame).alert_required
                THEN /\ jobs' = [jobs EXCEPT ![j] =
                            IF read.total_frames = 0
                            THEN CaughtInJob(read) ELSE read]
                     /\ uploaded_videos' = Progress(read, uploaded_videos)
                     /\ UNCHANGED running
                ELSE /\ jobs' = [jobs EXCEPT ![j] =
                            [read EXCEPT !.pc = "insert",
                               !.pending = alert_doc(Job(j), job.camera_id,
                                   analyze_frame(frame).primary_violation, Null)]]
                     /\ running' = Idle
                     /\ UNCHANGED uploaded_videos
    /\ last_result' = NoResult
    /\ UNCHANGED <<scope, sockets, http, analysis, now, active_streams, processing_tasks, tasks, stops,
                   alerts>>

(* The job resumes from create_alert (lines 393-415), then 417-426. *)
JobInsert(j) ==
    /\ running = Idle
    /\ j \in DOMAIN jobs
    /\ jobs[j].pc = "insert"
    /\ \E insert \in InsertOutcomes, broadcast \in scope.broadcasts :
         LET alert_id == insert = "inserted" /\ create_alert_returns(broadcast)
             job == [jobs[j] EXCEPT
                       !.pc = "loop", !.pending = NoDoc,
                       !.errors = IF jobs[j].total_frames = 0
                                  THEN @ + 1 ELSE @,
                       !.alerts_generated = IF alert_id THEN @ + 1 ELSE @]
         IN  /\ insert = "inserted" => Len(alerts) < MaxAlerts
             /\ alerts' = IF insert = "inserted"
                          THEN Append(alerts, jobs[j].pending) ELSE alerts
             /\ jobs' = [jobs EXCEPT ![j] = job]
             /\ uploaded_videos' = Progress(job, uploaded_videos)
             /\ sent_text' =
                   IF insert = "inserted"
                   THEN sent_text
                        \cup Messages("AlertService.websocket_service",
                                      broadcast, Len(alerts'))
                        \cup (IF alert_id
                              THEN Messages("VideoService.websocket_service",
                                            broadcast, Len(alerts'))
                              ELSE {})
                   ELSE sent_text
    /\ running' = Job(j)
    /\ last_result' = NoResult
    /\ UNCHANGED <<scope, active_connections, broadcasting, http, analysis, now, active_streams,
                   processing_tasks, tasks, stops>>

(* VideoService.get_stream_status and GET /status/{camera_id}. *)
get_stream_status(c) ==
    IF HasHandle(c) THEN [none |-> FALSE, is_active |-> active_streams[c].is_active]
    ELSE [none |-> TRUE, is_active |-> FALSE]

get_camera_status(c) ==
    IF get_stream_status(c).none THEN "inactive" ELSE "active"

(* GET /ws/{connection_type} (video.py:368-374): handle_websocket_        *)
(* connection of the module-level service accepts the socket and adds it   *)
(* to the channel's set (websocket_service.py:18-22, 165).                 *)
ConnectClient(w, channel) ==
    /\ running = Idle
    /\ w \notin active_connections["video.websocket_service"][channel]
    /\ active_connections' =
          [active_connections EXCEPT
              !["video.websocket_service"][channel] = @ \cup {w}]
    /\ last_result' = NoResult
    /\ UNCHANGED <<scope, broadcasting, http, analysis, now, running, active_streams,
                   processing_tasks, tasks, stops, alerts, sent_text, batch>>

(* What a disconnect means to a broadcast that is suspended in send_text   *)
(* on the same channel: the client did not stay for the whole of it.       *)
Leaves(w, channel) ==
    IF broadcasting.pc = "sending" /\ broadcasting.channel = channel
    THEN [broadcasting EXCEPT !.left = @ \cup {w}]
    ELSE broadcasting

(* The client goes away: receive_text raises WebSocketDisconnect and the   *)
(* finally clause of line 184 removes the socket (lines 24-28).            *)
DisconnectClient(w, channel) ==
    /\ running = Idle
    /\ w \in active_connections["video.websocket_service"][channel]
    /\ active_connections' =
          [active_connections EXCEPT
              !["video.websocket_service"][channel] = @ \ {w}]
    /\ broadcasting' = Leaves(w, channel)
    /\ last_result' = NoResult
    /\ UNCHANGED <<scope, http, analysis, now, running, active_streams,
                   processing_tasks, tasks, stops, alerts, sent_text, batch>>

(* next() of the set iterator of line 42: RuntimeError when the set has    *)
(* another size than when the iteration began, else the socket in the next *)
(* occupied slot, or the end of the loop.  The `for` statement is outside  *)
(* the try of line 43, so the RuntimeError leaves broadcast_to_type; at    *)
(* the end of the loop lines 50-51 remove the sockets whose send failed.   *)
NextSocket(b, connections) ==
    LET ahead == {w \in connections : Slot(w) > b.pos}
        first == CHOOSE w \in ahead : \A v \in ahead : Slot(w) <= Slot(v)
    IN  IF Cardinality(connections) # b.size
        THEN [b EXCEPT !.pc = "raised", !.current = Null]
        ELSE IF ahead = {}
        THEN [b EXCEPT !.pc = "returned", !.current = Null]
        ELSE [b EXCEPT !.pc = "sending", !.current = first, !.pos = Slot(first)]

(* Lines 49-51: disconnect of every socket in disconnected. *)
RemoveDisconnected(b, connections) ==
    IF b.pc = "returned" THEN connections \ b.disconnected ELSE connections

(* broadcast_to_type is called for a channel of the endpoint's manager and *)
(* runs to its first `await websocket.send_text` (lines 40-44), or to its  *)
(* end when the channel has no client.                                     *)
BroadcastToType(channel) ==
    /\ running = Idle
    /\ broadcasting.pc # "sending"
    /\ LET connections == active_connections["video.websocket_service"][channel]
           called == [NoBroadcast EXCEPT !.channel = channel,
                                         !.size = Cardinality(connections),
                                         !.start = connections]
       IN  broadcasting' = NextSocket(called, connections)
    /\ last_result' = NoResult
    /\ UNCHANGED <<scope, active_connections, sent_text, http, analysis, now,
                   running, active_streams, processing_tasks, tasks, stops,
                   alerts, batch>>

(* send_text returns or raises (lines 44-47) and the loop goes on to the   *)
(* next socket, to its end or to the iterator's RuntimeError.              *)
SendTextReturns ==
    /\ running = Idle
    /\ broadcasting.pc = "sending"
    /\ \E ok \in BOOLEAN :
         LET channel == broadcasting.channel
             connections == active_connections["video.websocket_service"][channel]
             done == IF ok
                     THEN [broadcasting EXCEPT
                             !.sent = Append(@, broadcasting.current)]
                     ELSE [broadcasting EXCEPT
                             !.disconnected = @ \cup {broadcasting.current},
                             !.failed = @ \cup {broadcasting.current}]
             next == NextSocket(done, connections)
         IN  /\ broadcasting' = next
             /\ active_connections' =
                   [active_connections EXCEPT
                      !["video.websocket_service"][channel] =
                          RemoveDisconnected(next, @)]
    /\ last_result' = NoResult
    /\ UNCHANGED <<scope, sent_text, http, analysis, now, running,
                   active_streams, processing_tasks, tasks, stops, alerts,
                   batch>>

(* VideoService.get_frame_from_camera, lines 490-518, as generate_frames   *)
(* of GET /stream/{camera_id} and /live/{camera_id} calls it: for a camera *)
(* with an active handle it opens a capture of its own on the handle's     *)
(* stream_url, reads one frame and releases it, all without an await.  The *)
(* result tells whether that capture was opened and gave a frame.          *)
GetFrameFromCamera(c) ==
    /\ running = Idle
    /\ \E opened \in BOOLEAN, ret \in BOOLEAN :
         LET result ==
                 IF ~HasHandle(c) \/ ~active_streams[c].is_active THEN "no_stream"
                 ELSE IF ~opened THEN "not_opened"
                 ELSE IF ~ret THEN "no_frame"
                 ELSE "frame"
         IN  /\ result = "frame" => active_streams[c].frame_count < MaxFrames
             /\ active_streams' =
                   IF result = "frame"
                   THEN [active_streams EXCEPT ![c].frame_count = @ + 1]
                   ELSE active_streams
             /\ last_result' = [NoResult EXCEPT !.op = "get_frame",
                                                !.camera = c, !.result = result]
    /\ UNCHANGED <<scope, sockets, http, analysis, now, running, processing_tasks,
                   tasks, stops, alerts, batch>>

(* The detections detect_objects can report of a frame: up to MaxLen       *)
(* objects of these types at these centers.                                *)
MaxLen == 2
DetectedTypes == {"Emergency Exit", "Worker", "Forklift"}
Centers == {<<0, 0>>, <<50, 0>>, <<80, 0>>, <<200, 0>>}
Detected == {Det(type, c[1], c[2]) : type \in DetectedTypes, c \in Centers}
DetectionLists == UNION {[1..n -> Detected] : n \in 0..MaxLen}

(* AIEngine.process_frame hands the detections of a frame to               *)
(* analyze_safety_violations.                                              *)
AnalyzeDetections(ds) ==
    /\ frame_detections' = ds
    /\ violations' = analyze_safety_violations(ds)
    /\ last_result' = NoResult
    /\ UNCHANGED <<scope, sockets, http, now, running, active_streams,
                   processing_tasks, tasks, stops, alerts, batch>>

(* The server hands one request to the middleware. *)
HttpRequest(r) ==
    /\ request' = r
    /\ response' = GlobalAuthMiddleware(r)
    /\ last_result' = NoResult
    /\ UNCHANGED <<scope, sockets, analysis, now, running, active_streams,
                   processing_tasks, tasks, stops, alerts, batch>>

(* The channels broadcast_alert sends to (lines 87-88). *)
BroadcastChannels == {"alerts", "dashboard"}

Sockets ==
    \/ \E w \in Clients, channel \in Channels : ConnectClient(w, channel)
    \/ \E w \in Clients, channel \in Channels : DisconnectClient(w, channel)

(* ---------------------------- specifications -------------------------- *)
Streams ==
    \/ \E c \in scope.cameras : \E cb \in Callbacks(c) : StartVideoStream(c, cb)
    \/ \E c \in scope.cameras : StopVideoStream(c)
    \/ \E s \in StopIds : StopResume(s)
    \/ \E t \in 1..MaxTasks : WorkerStart(t)
    \/ \E t \in 1..MaxTasks : WorkerLoop(t)
    \/ \E t \in 1..MaxTasks : WorkerInsert(t)
    \/ \E t \in 1..MaxTasks : WorkerPost(t)
    \/ \E t \in 1..MaxTasks : WorkerStopReturns(t)
    \/ \E t \in 1..MaxTasks : WorkerWake(t)

Batch ==
    \/ \E u \in Uploads : \E c \in scope.cameras : UploadVideo(u, c)
    \/ \E u \in Uploads : ProcessVideo(u)
    \/ \E j \in 1..MaxJobs : JobStart(j)
    \/ \E j \in 1..MaxJobs : JobLoop(j)
    \/ \E j \in 1..MaxJobs : JobInsert(j)

Next ==
    \/ Tick
    \/ Streams
    \/ Batch

(* The whole service on one camera. *)
Spec == Init /\ [][Next]_vars

(* The stream supervisor on two cameras, several workers, one sampled      *)
(* frame each, within one second of the clock.                             *)
InitStreams ==
    InitIn(Scope(Cameras, MaxTasks, 0, frame_skip, {"spill"}, QuietIO, 0, 0, {VideoFile}))
SpecStreams == InitStreams /\ [][Streams]_vars

(* One stream worker over several sampled frames and a full cooldown. *)
InitPipeline ==
    InitIn(Scope({"cam1"}, 1, 0, MaxFrames, FrameNames, AnyIO, 0, 31, {VideoFile}))
SpecPipeline == InitPipeline /\ [][Tick \/ Streams]_vars

(* One stream worker whose reads keep failing. *)
InitRetry ==
    InitIn(Scope({"cam1"}, 1, 0, frame_skip, {"spill"}, QuietIO, MaxFailures, 0,
                 {VideoFile}))
SpecRetry == InitRetry /\ [][Streams]_vars

(* Batch jobs on the uploads of one camera, with the clock running past    *)
(* max_processing_time.                                                    *)
InitBatch ==
    InitIn(Scope({"cam1"}, 0, MaxJobs, frame_skip, FrameNames, QuietIO, 0,
                 max_processing_time + 1, {VideoFile}))
SpecBatch == InitBatch /\ [][Tick \/ Batch]_vars

(* One stream worker creating alerts while clients come and go on the      *)
(* WebSocket endpoint; every transport is healthy.                         *)
InitSockets ==
    InitIn(Scope({"cam1"}, 1, 0, frame_skip, {"spill"}, QuietIO, 0, 0, {VideoFile}))
SpecSockets == InitSockets /\ [][Streams \/ Sockets]_vars

(* One stream worker while the MJPEG endpoints fetch frames of its camera. *)
InitLive ==
    InitIn(Scope({"cam1"}, 1, 0, frame_skip, {"spill"}, QuietIO, 0, 0, {VideoFile}))
SpecLive ==
    InitLive /\ [][Streams \/ \E c \in scope.cameras : GetFrameFromCamera(c)]_vars

(* One stream worker over several frames, with reads that fail in between, *)
(* and one batch job over files of every kind.                             *)
InitFiles ==
    InitIn(Scope({"cam1"}, 1, 1, MaxFrames, {"spill"}, QuietIO, 1, 0,
                 VideoFiles))
SpecFiles == InitFiles /\ [][Streams \/ Batch]_vars

(* Two cameras whose workers may have a callback that raises, and a batch  *)
(* job on an engine without analyze_frame or on a file without a count;    *)
(* no stream is stopped.                                                   *)
InitContain ==
    InitIn(Scope(Cameras, MaxTasks, 1, MaxFrames, {"spill"}, QuietIO, 0, 0,
                 {VideoFile, [fps |-> 5, total_frames |-> 0, frames |-> 2]}))
Contain ==
    \/ \E c \in scope.cameras :
          \E cb \in {"none", "raising_callback"} : StartVideoStream(c, cb)
    \/ \E t \in 1..MaxTasks : WorkerStart(t)
    \/ \E t \in 1..MaxTasks : WorkerLoop(t)
    \/ \E t \in 1..MaxTasks : WorkerInsert(t)
    \/ \E t \in 1..MaxTasks : WorkerPost(t)
    \/ \E t \in 1..MaxTasks : WorkerWake(t)
    \/ Batch
SpecContain == InitContain /\ [][Contain]_vars

(* analyze_safety_violations over the detection lists. *)
InitAnalysis ==
    InitIn(Scope({"cam1"}, 0, 0, 0, {"spill"}, QuietIO, 0, 0, {VideoFile}))
SpecAnalysis ==
    InitAnalysis /\ [][\E ds \in DetectionLists : AnalyzeDetections(ds)]_vars

(* Requests of every kind reaching the middleware while the clock passes   *)
(* the expiry of the tokens.                                               *)
InitAuth == InitIn(Scope({"cam1"}, 0, 0, 0, {"spill"}, QuietIO, 0, 31, {VideoFile}))
SpecAuth == InitAuth /\ [][Tick \/ \E r \in Requests : HttpRequest(r)]_vars

(* Broadcasts on the channels of the endpoint's manager while its clients  *)
(* connect and disconnect.                                                 *)
InitBroadcast ==
    InitIn(Scope({"cam1"}, 0, 0, 0, {"spill"}, QuietIO, 0, 0, {VideoFile}))
Broadcasts ==
    \/ \E w \in BroadcastClients, channel \in BroadcastChannels :
          ConnectClient(w, channel)
    \/ \E w \in BroadcastClients, channel \in BroadcastChannels :
          DisconnectClient(w, channel)
    \/ \E channel \in BroadcastChannels : BroadcastToType(channel)
    \/ SendTextReturns
SpecBroadcast == InitBroadcast /\ [][Broadcasts]_vars

(* ------------------------------- claims ------------------------------- *)
WorkerIds == DOMAIN tasks
JobIds == DOMAIN jobs

AlertsBy(who) == {i \in DOMAIN alerts : alerts[i].by = who}

(* C1: a start_video_stream call for a camera that already has a handle    *)
(* is a no-op: the handles (with all their fields), the registered tasks   *)
(* and the set of worker tasks are what they were before the call.         *)
C1_SecondStartIsNoOp ==
    [][(last_result'.op = "start" /\ HasHandle(last_result'.camera))
          => /\ active_streams' = active_streams
             /\ processing_tasks' = processing_tasks
             /\ tasks' = tasks
             /\ last_result'.result = "already_active"]_vars

C1_Witness ==
    /\ last_result.op = "start"
    /\ last_result.result = "already_active"
    /\ HasHandle(last_result.camera)
    /\ HasTask(last_result.camera)
    /\ Cardinality({t \in WorkerIds : tasks[t].camera = last_result.camera}) = 1

(* C2: for each camera at most one stream worker or batch job is active at *)
(* any time.                                                               *)
C2_OneWorkerOrJobPerCamera ==
    \A c \in Cameras :
        Cardinality({t \in WorkerIds : tasks[t].camera = c /\ Live(t)})
          + Cardinality({j \in JobIds : jobs[j].camera_id = c
                                         /\ jobs[j].pc # "done"}) <= 1

(* C3: of the candidates of one violation type that a stream worker sees   *)
(* within one cooldown window, at most one is admitted by                  *)
(* _should_create_alert.                                                   *)
C3_OneAdmissionPerWindow ==
    \A t \in WorkerIds : \A i, j \in DOMAIN tasks[t].log :
        LET first == tasks[t].log[i]
            second == tasks[t].log[j]
        IN  (i < j /\ first.violation_type = second.violation_type
                   /\ first.admitted /\ second.admitted)
               => second.at - first.at >= alert_cooldown

C5_StopLeavesNothingRunning ==
    (last_result.op = "stop" /\ last_result.result # "not_active")
       => /\ last_result.task_done
          /\ last_result.cap_released
          /\ last_result.absent

(* C6: a stop_video_stream call for a camera without a handle leaves       *)
(* active_streams, processing_tasks, the suspended stop calls and the      *)
(* workers of every other camera as they were.                             *)
C6_StopWithoutHandleChangesNothing ==
    [][(last_result'.op = "stop" /\ last_result'.result = "not_active")
          => /\ active_streams' = active_streams
             /\ processing_tasks' = processing_tasks
             /\ stops' = stops
             /\ DOMAIN tasks' = DOMAIN tasks
             /\ \A t \in WorkerIds :
                   tasks[t].camera # last_result'.camera => tasks'[t] = tasks[t]]_vars

C6_Witness ==
    /\ last_result.op = "stop"
    /\ last_result.result = "not_active"
    /\ ~HasHandle(last_result.camera)
    /\ \E t \in WorkerIds : tasks[t].camera # last_result.camera /\ Live(t)
                            /\ tasks[t].cap = "open"

(* C7: once a stream worker has put a sampled frame showing a worker with  *)
(* no hard hat within 100 px through the pipeline, with no cooldown entry  *)
(* and no failure of the alert store, an alert No Hard Hat / High / New by *)
(* that worker is in the store.                                            *)
C7_BareHeadFrameRaisesAlert ==
    \A t \in WorkerIds :
        (/\ tasks[t].pc = "post"
         /\ tasks[t].frame = "bare_head"
         /\ tasks[t].processed_frames = 1
         /\ \A i \in DOMAIN tasks[t].log : tasks[t].log[i].insert # "failed")
           => \E i \in AlertsBy(Worker(t)) :
                 /\ alerts[i].violation_type = "No Hard Hat"
                 /\ alerts[i].severity_level = "High"
                 /\ alerts[i].status = "New"
                 /\ alerts[i].camera_id = tasks[t].camera

(* C8: an alert persisted for a frame whose snapshot could not be saved    *)
(* has snapshot_url null.                                                  *)
C8_FailedSnapshotGivesNullUrl ==
    \A t \in WorkerIds : \A i \in DOMAIN tasks[t].log :
        (tasks[t].log[i].snapshot \in {"raised", "not_written"}
           /\ tasks[t].log[i].insert = "inserted")
          => \E a \in AlertsBy(Worker(t)) :
                /\ alerts[a].timestamp = tasks[t].log[i].at
                /\ alerts[a].snapshot_url = Null

(* C9: in create_alert the broadcast is attempted only after the insert    *)
(* succeeded, and whatever the broadcast does (no subscriber, transport    *)
(* error) the inserted alert stays in the store and create_alert returns   *)
(* it.                                                                     *)
C9_BroadcastFailureKeepsAlert ==
    \A t \in WorkerIds : \A i \in DOMAIN tasks[t].log :
        LET e == tasks[t].log[i]
        IN  /\ e.broadcast # Null => e.insert = "inserted"
            /\ (e.insert = "inserted" /\ e.broadcast # Null)
                 => /\ e.created
                    /\ \E a \in AlertsBy(Worker(t)) : alerts[a].timestamp = e.at

C9_Witness ==
    \E t \in WorkerIds : \E i \in DOMAIN tasks[t].log :
        /\ tasks[t].log[i].insert = "inserted"
        /\ tasks[t].log[i].broadcast = "error"
        /\ tasks[t].log[i].created
        /\ \E a \in AlertsBy(Worker(t)) : alerts[a].timestamp = tasks[t].log[i].at

(* C10: after 10 consecutive failed reads the worker has stopped retrying  *)
(* and the status of its camera no longer reports an active stream.        *)
C10_TenFailuresEndInError ==
    \A t \in WorkerIds :
        tasks[t].read_failures >= MaxFailures
          => /\ tasks[t].pc = "done"
             /\ get_camera_status(tasks[t].camera) # "active"

(* C11: once a worker has given up because its source did not open, the   *)
(* status of its camera (while that worker is still the registered one)   *)
(* no longer reports an active stream.                                    *)
C11_OpenFailureReported ==
    \A t \in WorkerIds :
        (/\ tasks[t].exit = "not_opened"
         /\ HasTask(tasks[t].camera)
         /\ processing_tasks[tasks[t].camera] = t)
           => /\ get_camera_status(tasks[t].camera) # "active"
              /\ ~get_stream_status(tasks[t].camera).is_active

(* C20: a start_video_stream call is not turned away as already active    *)
(* because of a worker that ended by itself when its source did not open: *)
(* such a call launches a new worker.                                     *)
C20_StartAfterOpenFailure ==
    (/\ last_result.op = "start"
     /\ HasTask(last_result.camera)
     /\ tasks[processing_tasks[last_result.camera]].exit = "not_opened")
       => last_result.result = "started"

(* The step on which job j leaves its frame loop for the given reason. *)
JobEnds(j, reason) ==
    /\ j \in DOMAIN jobs
    /\ jobs[j].pc = "loop"
    /\ jobs'[j].pc = "done"
    /\ jobs'[j].exit = reason

(* A progress fraction below 100 percent. *)
Below100(progress) == progress[1] < 100 * progress[2]

C13_TimeoutBelow100 ==
    [][\A j \in 1..MaxJobs :
         JobEnds(j, "timeout") =>
            /\ uploaded_videos'[jobs[j].upload_id].status = "timeout"
            /\ Below100(uploaded_videos'[jobs[j].upload_id].processing_progress)]_vars

(* C14: an upload does not stay 'processing' once every job started for it *)
(* has ended: each job leaves a terminal status behind, also the job whose *)
(* file did not open.                                                      *)
C14_EndedJobLeavesTerminalStatus ==
    \A u \in DOMAIN uploaded_videos :
        uploaded_videos[u].status = "processing"
            => \E j \in JobIds : jobs[j].upload_id = u /\ jobs[j].pc # "done"

(* C15: any two alerts persisted by create_alert have different alert_ids, *)
(* also when different cameras' workers create them in the same second.   *)
C15_AlertIdsUnique ==
    \A i, k \in DOMAIN alerts :
        i # k => alerts[i].alert_id # alerts[k].alert_id

(* C16: on the step on which create_alert persists an alert, the alert     *)
(* message is sent to every client connected through /ws/alerts or         *)
(* /ws/dashboard (all transports being healthy).                           *)
C16_AlertSentToEndpointClients ==
    [][Len(alerts') > Len(alerts) =>
          \A w \in Receivers("video.websocket_service", "no_subscribers") :
              [to |-> w, alert |-> Len(alerts')] \in sent_text']_vars

(* A Bearer token that is validly signed, has sub and exp and is not       *)
(* expired.                                                                *)
ValidBearer(authorization) ==
    /\ authorization.scheme = "Bearer"
    /\ ~authorization.token.empty
    /\ authorization.token.signed
    /\ authorization.token.sub
    /\ authorization.token.has_exp
    /\ now <= authorization.token.exp

(* C17: an HTTP request whose path matches a protected route pattern is    *)
(* forwarded to the application only with a valid Bearer token and is      *)
(* answered 401 otherwise.                                                 *)
C17_ProtectedRouteNeedsValidToken ==
    (request.type = "http" /\ _is_protected_route(request.path))
        => /\ response.to = "app" => ValidBearer(request.authorization)
           /\ ~ValidBearer(request.authorization) => response.to = "401"

(* C18: while the insert of an admitted candidate is still under way, the  *)
(* worker's cooldown entry for the candidate's key already holds the time  *)
(* of the admission.                                                       *)
C18_CooldownSetBeforeInsert ==
    \A t \in WorkerIds :
        tasks[t].pc = "insert" =>
            /\ tasks[t].pending.violation_type \in DOMAIN tasks[t].last_alert_time
            /\ tasks[t].last_alert_time[tasks[t].pending.violation_type]
                   = tasks[t].pending.timestamp

(* The sampled frames of worker t whose alert the worker took as created,  *)
(* that is, for which it wrote its cooldown entry and counted the alert.   *)
Accounted(t) == {k \in DOMAIN tasks[t].log : tasks[t].log[k].created}

(* C19: a stop does not interrupt the processing of a sampled frame: every *)
(* alert a worker has inserted into the store is one for which the worker  *)
(* updated its cooldown entry and alert_count.                             *)
C19_NoInsertWithoutAccounting ==
    \A t \in WorkerIds :
        Cardinality(AlertsBy(Worker(t))) = Cardinality(Accounted(t))

(* C21: a worker that has read the last frame of its source ends at the    *)
(* read that finds no further frame: it never waits to try the read again. *)
C21_EndOfStreamEndsWorker ==
    \A t \in WorkerIds :
        tasks[t].frame_count = scope.frames => tasks[t].pc # "retry_sleep"

(* C22: get_frame_from_camera opens no capture on a camera's source while  *)
(* a stream worker of that camera holds its own capture open.              *)
C22_CaptureExclusive ==
    (last_result.op = "get_frame" /\ last_result.result \in {"frame", "no_frame"})
        => \A t \in WorkerIds :
              tasks[t].camera = last_result.camera => tasks[t].cap # "open"

(* C23: two alerts that one batch job persists for the same violation type *)
(* are at least the cooldown of 30 s apart.                                *)
C23_BatchAlertsCooldownApart ==
    \A i, k \in DOMAIN alerts :
        (i < k /\ alerts[i].by = alerts[k].by /\ alerts[i].by[1] = "job"
               /\ alerts[i].violation_type = alerts[k].violation_type)
           => alerts[k].timestamp - alerts[i].timestamp >= alert_cooldown

(* C24: two alerts that stream workers persist for the same camera and     *)
(* violation type are at least 30 s apart, also when a stop and a start of *)
(* the camera lie between them.                                            *)
C24_CooldownSurvivesRestart ==
    \A i, k \in DOMAIN alerts :
        (i < k /\ alerts[i].by[1] = "worker" /\ alerts[k].by[1] = "worker"
               /\ alerts[i].camera_id = alerts[k].camera_id
               /\ alerts[i].violation_type = alerts[k].violation_type)
           => alerts[k].timestamp - alerts[i].timestamp >= alert_cooldown

(* The numbers up to count that are multiples of stride. *)
Multiples(stride, count) == {k \in 1..count : k % stride = 0}

(* C25: a stream worker has handed to the analysis exactly the frames      *)
(* whose number among its successful reads is a multiple of 3, and a batch *)
(* job exactly the frames whose number is a multiple of floor(fps/5), or   *)
(* every frame when that is below 1.                                       *)
C25_SampledFramesOnly ==
    /\ \A t \in WorkerIds :
         tasks[t].forwarded = Multiples(3, tasks[t].frame_count)
    /\ \A j \in JobIds :
         jobs[j].forwarded =
            Multiples(IF jobs[j].fps \div 5 >= 1 THEN jobs[j].fps \div 5 ELSE 1,
                      jobs[j].frame_count)

C25_Witness ==
    /\ \E t \in WorkerIds :
         /\ tasks[t].forwarded = {3, 6}
         /\ tasks[t].read_failures > 0
    /\ \E j \in JobIds :
         /\ jobs[j].fps = 10
         /\ jobs[j].forwarded = {2, 4}

(* Camera c2 has the same handle and registered task after the step. *)
CameraUntouched(c2) ==
    /\ (c2 \in DOMAIN active_streams') = (c2 \in DOMAIN active_streams)
    /\ c2 \in DOMAIN active_streams => active_streams'[c2] = active_streams[c2]
    /\ (c2 \in DOMAIN processing_tasks') = (c2 \in DOMAIN processing_tasks)
    /\ c2 \in DOMAIN processing_tasks =>
           processing_tasks'[c2] = processing_tasks[c2]

(* C26: the step on which the processing of a sampled frame raises leaves  *)
(* the worker or job in its loop, ready for the next frame, and changes no *)
(* other task and no other camera's handle or registered task.             *)
C26_FrameErrorContained ==
    [][/\ \A t \in 1..MaxTasks :
            (t \in DOMAIN tasks /\ tasks'[t].errors > tasks[t].errors) =>
               /\ tasks'[t].pc = "loop"
               /\ tasks'[t].cap = "open"
               /\ \A t2 \in DOMAIN tasks \ {t} : tasks'[t2] = tasks[t2]
               /\ \A c2 \in Cameras \ {tasks[t].camera} : CameraUntouched(c2)
               /\ jobs' = jobs
       /\ \A j \in 1..MaxJobs :
            (j \in DOMAIN jobs /\ jobs'[j].errors > jobs[j].errors) =>
               /\ jobs'[j].pc = "loop"
               /\ jobs'[j].cap = "open"
               /\ tasks' = tasks
               /\ \A c2 \in Cameras : CameraUntouched(c2)]_vars

C26_Witness ==
    /\ \E t \in WorkerIds :
         /\ tasks[t].errors > 0
         /\ tasks[t].frame_count > frame_skip
         /\ \E t2 \in WorkerIds : tasks[t2].camera # tasks[t].camera /\ Live(t2)
    /\ \E j \in JobIds : jobs[j].errors > 0

(* C27: analyze_safety_violations returns a Blocked Exit candidate only    *)
(* when some detected emergency exit has another detection, not a person,  *)
(* with its center less than 80 px from the exit's.                        *)
C27_BlockedExitNeedsOtherObject ==
    (\E i \in DOMAIN violations : violations[i].violation_type = "Blocked Exit")
        => \E e, k \in DOMAIN frame_detections :
              /\ e # k
              /\ frame_detections[e].type = "Emergency Exit"
              /\ frame_detections[k].type \notin {"Worker", "Visitor"}
              /\ SqDist(frame_detections[e].center, frame_detections[k].center)
                    < blocking_threshold * blocking_threshold

(* C28: under every interleaving of start_video_stream and                 *)
(* stop_video_stream calls, two overlapping stops included, every camera   *)
(* in processing_tasks has a handle in active_streams, no worker that has  *)
(* not finished belongs to a camera without a handle, and a stop call that *)
(* resumes leaves in place the handle and the task registered by a start   *)
(* that came after it.                                                     *)
C28_StartStopSerialized ==
    [][/\ \A c \in DOMAIN processing_tasks' : c \in DOMAIN active_streams'
       /\ \A t \in DOMAIN tasks' :
            tasks'[t].pc # "done" => tasks'[t].camera \in DOMAIN active_streams'
       /\ \A s \in DOMAIN stops \ DOMAIN stops' :
            LET c == stops[s].camera
                t == stops[s].task
            IN  (HasTask(c) /\ processing_tasks[c] # t)
                   => /\ c \in DOMAIN processing_tasks'
                      /\ processing_tasks'[c] = processing_tasks[c]
                      /\ c \in DOMAIN active_streams']_vars

(* C29: during a batch job the processing_progress published for its       *)
(* upload stays between 0 and 100 and never decreases, whatever frame      *)
(* count the file's metadata reports (0 and a count below the number of    *)
(* frames read included).                                                  *)
C29_ProgressBoundedMonotone ==
    [][\A u \in DOMAIN uploaded_videos \cap DOMAIN uploaded_videos' :
         LET before == uploaded_videos[u].processing_progress
             after == uploaded_videos'[u].processing_progress
         IN  /\ 0 <= after[1]
             /\ after[1] <= 100 * after[2]
             /\ before[1] * after[2] <= after[1] * before[2]]_vars

(* How often send_text returned for socket w in a broadcast. *)
Deliveries(b, w) == Cardinality({i \in DOMAIN b.sent : b.sent[i] = w})

(* C30: whenever a broadcast_to_type call ends, with clients connecting    *)
(* and disconnecting on its channel meanwhile, it ends without an error,   *)
(* every client that was connected from its start to its end and whose     *)
(* send did not fail got the message exactly once, and the clients whose   *)
(* send failed are no longer in the channel's set.                         *)
C30_BroadcastUnderChurn ==
    [][(/\ broadcasting'.pc \in {"returned", "raised"}
        /\ broadcasting' # broadcasting)
          => /\ broadcasting'.pc = "returned"
             /\ \A w \in (broadcasting'.start \ broadcasting'.left)
                          \ broadcasting'.failed :
                   Deliveries(broadcasting', w) = 1
             /\ broadcasting'.failed
                  \cap active_connections'["video.websocket_service"]
                                          [broadcasting'.channel] = {}]_vars

=============================================================================
